---- MODULE Spec2Model ----
(***************************************************************************)
(* mkToDo: the task service (internal/todo), its SQLite store              *)
(* (internal/store, current and previous version) and the schema           *)
(* migration run at start-up, driven by the desktop window's handlers      *)
(* (cmd/desktop), as a state machine over one database file.               *)
(*                                                                         *)
(* Time: time.Now() is an instant counted in ticks, TicksPerSecond ticks   *)
(* to the second.  time.RFC3339 text carries whole seconds only, so a      *)
(* formatted timestamp is modelled by its number of whole seconds.         *)
(***************************************************************************)
EXTENDS Integers, Sequences, FiniteSets, TLC

VARIABLES
    db,       \* the database file: tables, columns, schema_version, rows
    pc,       \* position of the process in New/migrate, or "ready"/"old"/"down"
    i,        \* migrate's loop index
    tx,       \* the open migration transaction's uncommitted view, or {}
    clock,    \* the wall clock read by time.Now()
    tasks,    \* appState.tasks: the task objects the window shows ([]*Task)
    filter,   \* appState.filter: "all", "active" or "done"
    applied,  \* history: the migration steps committed to the file, in order
    issued,   \* history: every id Create has assigned, in order
    faults,   \* how many storage errors the environment has injected so far
    last      \* history: the latest operation and its outcome

vars == <<db, pc, i, tx, clock, tasks, filter, applied, issued, faults, last>>

\* ---------------------------------------------------------------- bounds
MaxID == 2
MaxFaults == 1
MaxClock == 2
TicksPerSecond == 2

Titles == {"", "a"}
Descriptions == {""}

\* ------------------------------------------------------------- constants
PriorityLow == 1
PriorityMedium == 2
PriorityHigh == 3
Priorities == {PriorityLow, PriorityMedium, PriorityHigh}

\* The priorities the user picks in the form (parsePriority's results).
Picked == {PriorityLow, PriorityMedium, PriorityHigh}

\* An absent value (SQL NULL, a nil *time.Time) is the empty set, a present
\* value v is {v}.
nil == {}
Some(v) == {v}
Get(o) == CHOOSE v \in o : TRUE

\* ------------------------------------------------------- pure conversions
boolToInt(b) == IF b THEN 1 ELSE 0

\* t.Format(time.RFC3339): the text keeps whole seconds.
Format(t) == t \div TicksPerSecond

\* time.Parse(time.RFC3339, s): the instant at the start of that second.
Parse(s) == s * TicksPerSecond

\* ------------------------------------------------------------ migrations
migrations == <<"closed_at">>

\* The three statements of initialSchema, executed one after the other
\* (each its own implicit transaction); n is how many of them ran.
initialSchema(d, n) ==
    LET d1 == IF n >= 1 THEN [d EXCEPT !.tables = @ \cup {"tasks"}] ELSE d
        d2 == IF n >= 2 THEN [d1 EXCEPT !.tables = @ \cup {"schema_version"}] ELSE d1
        d3 == IF n >= 3 /\ d2.version = nil
                 THEN [d2 EXCEPT !.version = Some(0)] ELSE d2
    IN  d3

\* The previous version's schema: the tasks table alone.
schema(d) == [d EXCEPT !.tables = @ \cup {"tasks"}]

\* The transaction's view of the schema after tx.Exec(migrations[k]).
\* ALTER TABLE ... ADD COLUMN gives NULL to the rows that exist.
RunMigrationMutExecOnDb(d, t, k) ==
    [db |-> [d EXCEPT !.columns = @ \cup {migrations[k]}], tx |-> t]

RunMigration(d, t, k) ==
    [db |-> d, tx |-> Some([Get(t) EXCEPT !.columns = @ \cup {migrations[k]}])]

\* ALTER TABLE ADD COLUMN fails on a column that exists.
MigrationFails(t, k) == migrations[k] \in Get(t).columns

\* tx.Exec(`UPDATE schema_version SET version = ?`, i+1)
BumpVersionMutIndex(t, k) == Some([Get(t) EXCEPT !.version = Some(k - 1)])

BumpVersion(t, k) == Some([Get(t) EXCEPT !.version = Some(k)])

\* tx.Commit(): the transaction's view becomes the file's.
Commit(d, t) == [d EXCEPT !.columns = Get(t).columns, !.version = Get(t).version]

\* migrate's loop starts at the persisted version.
FirstStep(d) == Get(d.version)

\* ------------------------------------------------------------ the store
\* id INTEGER PRIMARY KEY AUTOINCREMENT: one more than the largest rowid the
\* table ever held (sqlite_sequence), not than the largest it holds now.
NextRowidMutNoAutoincrement(d) ==
    IF d.rows = {} THEN 1
    ELSE (CHOOSE m \in {r.id : r \in d.rows} : \A r \in d.rows : r.id <= m) + 1

NextRowid(d) == d.seq + 1

\* SQLiteStore.Create: INSERT the task, closed_at NULL; t.ID = LastInsertId.
Create(d, t) ==
    LET id == NextRowid(d)
        row == [id |-> id, title |-> t.Title, description |-> t.Description,
                done |-> boolToInt(t.Done), priority |-> t.Priority,
                created_at |-> Format(t.CreatedAt),
                updated_at |-> Format(t.UpdatedAt), closed_at |-> nil]
    IN  [db |-> [d EXCEPT !.rows = @ \cup {row},
                          !.seq = IF id > @ THEN id ELSE @],
         t |-> [t EXCEPT !.ID = id]]

\* ORDER BY done ASC, priority DESC, created_at ASC: a before b, or tied.
\* created_at is TEXT and compares as text; RFC3339 text of one zone
\* compares as its seconds do.
OrderBy(a, b) ==
    \/ a.done < b.done
    \/ a.done = b.done /\ a.priority > b.priority
    \/ a.done = b.done /\ a.priority = b.priority /\ a.created_at <= b.created_at

\* rows.Scan and the conversions of List's loop body.
Scan(r) ==
    [ID |-> r.id, Title |-> r.title, Description |-> r.description,
     Done |-> r.done # 0, Priority |-> r.priority,
     CreatedAt |-> Parse(r.created_at), UpdatedAt |-> Parse(r.updated_at),
     ClosedAt |-> IF r.closed_at # nil THEN Some(Parse(Get(r.closed_at))) ELSE nil]

\* SQLiteStore.List: every result the query may produce.  SQL leaves the
\* order of rows that tie on the ORDER BY terms to the engine.
List(d) ==
    LET n == Cardinality(d.rows)
        orders == {s \in [1..n -> d.rows] :
                     /\ \A x, y \in 1..n : x # y => s[x] # s[y]
                     /\ \A x, y \in 1..n : x < y => OrderBy(s[x], s[y])}
    IN  {[x \in 1..n |-> Scan(s[x])] : s \in orders}

\* SQLiteStore.Update, the part before the statement: the closed
\* timestamp is settled on the task object itself.
StampMutKeepOnUndone(t, now) ==
    IF t.Done /\ t.ClosedAt = nil THEN [t EXCEPT !.ClosedAt = Some(now)] ELSE t

Stamp(t, now) ==
    IF t.Done
       THEN IF t.ClosedAt = nil THEN [t EXCEPT !.ClosedAt = Some(now)] ELSE t
       ELSE [t EXCEPT !.ClosedAt = nil]

\* SQLiteStore.Update, the statement: UPDATE tasks SET ... WHERE id=?
\* (no row with that id: nothing changes, and no error).
Update(d, t) ==
    [d EXCEPT !.rows =
        {IF r.id = t.ID
            THEN [r EXCEPT !.title = t.Title, !.description = t.Description,
                           !.done = boolToInt(t.Done), !.priority = t.Priority,
                           !.updated_at = Format(t.UpdatedAt),
                           !.closed_at = IF t.Done
                                            THEN Some(Format(Get(t.ClosedAt)))
                                            ELSE nil]
            ELSE r : r \in @}]

\* The previous version's Update: no closed_at column, no ClosedAt field.
OldUpdate(d, t) ==
    [d EXCEPT !.rows =
        {IF r.id = t.ID
            THEN [r EXCEPT !.title = t.Title, !.description = t.Description,
                           !.done = boolToInt(t.Done), !.priority = t.Priority,
                           !.updated_at = Format(t.UpdatedAt)]
            ELSE r : r \in @}]

\* SQLiteStore.Delete: DELETE FROM tasks WHERE id=?
DeleteMutUpTo(d, id) == [d EXCEPT !.rows = {r \in @ : r.id > id}]

Delete(d, id) == [d EXCEPT !.rows = {r \in @ : r.id # id}]

\* ---------------------------------------------------------- the service
\* Service.Add's task before Create.
NewTaskMutStampLater(title, description, priority, now) ==
    [ID |-> 0, Title |-> title, Description |-> description, Done |-> FALSE,
     Priority |-> priority, CreatedAt |-> now, UpdatedAt |-> now + TicksPerSecond,
     ClosedAt |-> nil]

NewTask(title, description, priority, now) ==
    [ID |-> 0, Title |-> title, Description |-> description, Done |-> FALSE,
     Priority |-> priority, CreatedAt |-> now, UpdatedAt |-> now,
     ClosedAt |-> nil]

\* Service.Toggle's assignments.
ServiceToggle(t, now) == [t EXCEPT !.Done = ~@, !.UpdatedAt = now]

\* Service.Edit's assignments.
ServiceEdit(t, title, description, priority, now) ==
    [t EXCEPT !.Title = title, !.Description = description,
              !.Priority = priority, !.UpdatedAt = now]

FreshFile ==
    [tables |-> {}, columns |-> {}, version |-> nil, rows |-> {}, seq |-> 0]

\* The rows a statement with WHERE id=? changes.
Hits(d, id) == Cardinality({r \in d.rows : r.id = id})

\* The latest operation: its name, whether its storage call failed, the
\* task id it was about and the number of rows its statement changed.
Op(name, err, id, n) == [op |-> name, err |-> err, id |-> id, n |-> n]

Init ==
    /\ db = FreshFile
    /\ pc = "down"
    /\ i = 0
    /\ tx = nil
    /\ clock = 0
    /\ tasks = <<>>
    /\ filter = "all"
    /\ applied = <<>>
    /\ issued = <<>>
    /\ faults = 0
    /\ last = Op("none", FALSE, 0, 0)

\* ------------------------------------------------------------ the window
Running == pc \in {"ready", "old"}

\* The outcomes <<ok, rok>> of a handler's two storage calls: ok, its
\* service call succeeds; rok, the All() of the refresh that follows
\* succeeds.  The environment injects at most MaxFaults storage errors.
Outcomes ==
    {<<TRUE, TRUE>>} \cup
    (IF faults < MaxFaults THEN {<<FALSE, TRUE>>, <<TRUE, FALSE>>} ELSE {})

Count(o) == IF o[1] /\ o[2] THEN faults ELSE faults + 1

\* refresh's filter loop.
Filtered(l, f) ==
    SelectSeq(l, LAMBDA t : \/ f = "all"
                            \/ f = "active" /\ ~t.Done
                            \/ f = "done" /\ t.Done)

\* refresh(): s.tasks after it; on an error of All() the list is kept.
refresh(d, f, old, rok) ==
    IF rok THEN {Filtered(l, f) : l \in List(d)} ELSE {old}

\* ------------------------------------------------------- start-up (New)
\* New: sql.Open, then db.Exec(initialSchema), then migrate's read of the
\* version.  n < 3: the schema script failed after n statements; readOk
\* FALSE: the version query failed.  Either way New returns an error.
New ==
    /\ pc = "down"
    /\ \E n \in 0..3, readOk \in BOOLEAN :
         LET d == initialSchema(db, n)
             ok == n = 3 /\ readOk
         IN  /\ db' = d
             /\ pc' = IF ok THEN "loop" ELSE "down"
             /\ i' = IF ok THEN FirstStep(d) ELSE 0
             /\ last' = Op("New", ~ok, 0, 0)
    /\ UNCHANGED <<tx, clock, tasks, filter, applied, issued, faults>>

\* migrate, loop head: db.Begin(), or, when i has reached len(migrations),
\* New returns the store and main shows the window: s.refresh().
MigrateBegin ==
    /\ pc = "loop"
    /\ IF i >= Len(migrations)
          THEN \E o \in Outcomes :
               /\ o[1]
               /\ pc' = "ready"
               /\ tx' = nil
               /\ tasks' \in refresh(db, filter, tasks, o[2])
               /\ faults' = Count(o)
               /\ last' = Op("Ready", ~o[2], 0, 0)
          ELSE \E ok \in BOOLEAN :
               /\ pc' = IF ok THEN "stmt" ELSE "down"
               /\ tx' = IF ok THEN Some([columns |-> db.columns, version |-> db.version])
                              ELSE nil
               /\ last' = Op("Begin", ~ok, i + 1, 0)
               /\ UNCHANGED <<tasks, faults>>
    /\ UNCHANGED <<db, i, clock, filter, applied, issued>>

\* tx.Exec(migrations[i]); on error tx.Rollback() and return.
MigrateExec ==
    /\ pc = "stmt"
    /\ \E run \in BOOLEAN :
         LET ok == run /\ ~MigrationFails(tx, i + 1)
             r == RunMigration(db, tx, i + 1)
         IN  /\ pc' = IF ok THEN "bump" ELSE "down"
             /\ db' = IF ok THEN r.db ELSE db
             /\ tx' = IF ok THEN r.tx ELSE nil
             /\ last' = Op("Exec", ~ok, i + 1, 0)
    /\ UNCHANGED <<i, clock, tasks, filter, applied, issued, faults>>

\* tx.Exec(UPDATE schema_version ...); on error tx.Rollback() and return.
MigrateBump ==
    /\ pc = "bump"
    /\ \E ok \in BOOLEAN :
         /\ pc' = IF ok THEN "commit" ELSE "down"
         /\ tx' = IF ok THEN BumpVersion(tx, i + 1) ELSE nil
         /\ last' = Op("Bump", ~ok, i + 1, 0)
    /\ UNCHANGED <<db, i, clock, tasks, filter, applied, issued, faults>>

\* tx.Commit(); on error return (the transaction never becomes durable).
MigrateCommit ==
    /\ pc = "commit"
    /\ \E ok \in BOOLEAN :
         /\ pc' = IF ok THEN "loop" ELSE "down"
         /\ db' = IF ok THEN Commit(db, tx) ELSE db
         /\ i' = IF ok THEN i + 1 ELSE i
         /\ applied' = IF ok THEN Append(applied, i + 1) ELSE applied
         /\ last' = Op("Commit", ~ok, i + 1, 0)
    /\ tx' = nil
    /\ UNCHANGED <<clock, tasks, filter, issued, faults>>

\* The process stops while New is running: an open transaction is lost.
Crash ==
    /\ pc \in {"loop", "stmt", "bump", "commit"}
    /\ pc' = "down"
    /\ tx' = nil
    /\ last' = Op("Crash", FALSE, i + 1, 0)
    /\ UNCHANGED <<db, i, clock, tasks, filter, applied, issued, faults>>

\* The previous version's New: db.Exec(schema).  It ran on this file only
\* before the current version first opened it.
OldNew ==
    /\ pc = "down"
    /\ "schema_version" \notin db.tables
    /\ \E ok \in BOOLEAN, o \in Outcomes :
         /\ o[1]
         /\ db' = IF ok THEN schema(db) ELSE db
         /\ pc' = IF ok THEN "old" ELSE "down"
         /\ tasks' \in refresh(db, filter, tasks, ok /\ o[2])
         /\ faults' = IF ok THEN Count(o) ELSE faults
         /\ last' = Op("OldNew", ~ok, 0, 0)
    /\ UNCHANGED <<i, tx, clock, filter, applied, issued>>

\* Update as the running binary has it.
StoreUpdate(d, t) == IF pc = "old" THEN OldUpdate(d, t) ELSE Update(d, t)
StoreStamp(t, now) == IF pc = "old" THEN t ELSE Stamp(t, now)

\* showTaskForm(nil), Save, without the check of the title.
addTaskMutNoTitleCheck(title, description, priority, o) ==
    /\ Running
    /\ db.seq < MaxID
    /\ LET r == Create(db, NewTask(title, description, priority, clock))
       IN  /\ db' = IF o[1] THEN r.db ELSE db
           /\ issued' = IF o[1] THEN Append(issued, r.t.ID) ELSE issued
           /\ tasks' \in refresh(db', filter, tasks, o[1] /\ o[2])
           /\ faults' = Count(o)
           /\ last' = Op("addTask", ~o[1], IF o[1] THEN r.t.ID ELSE 0,
                          IF o[1] THEN 1 ELSE 0)
    /\ UNCHANGED <<pc, i, tx, clock, filter, applied>>

\* showTaskForm(nil), Save: an empty title is refused; else Service.Add
\* (-> Create), and refresh() unless Add failed.
addTask(title, description, priority, o) ==
    /\ Running
    /\ db.seq < MaxID
    /\ IF title = ""
          THEN /\ o = <<TRUE, TRUE>>
               /\ last' = Op("addTask", TRUE, 0, 0)
               /\ UNCHANGED <<db, tasks, issued, faults>>
          ELSE LET r == Create(db, NewTask(title, description, priority, clock))
               IN  /\ db' = IF o[1] THEN r.db ELSE db
                   /\ issued' = IF o[1] THEN Append(issued, r.t.ID) ELSE issued
                   /\ tasks' \in refresh(db', filter, tasks, o[1] /\ o[2])
                   /\ faults' = Count(o)
                   /\ last' = Op("addTask", ~o[1], IF o[1] THEN r.t.ID ELSE 0,
                                  IF o[1] THEN 1 ELSE 0)
    /\ UNCHANGED <<pc, i, tx, clock, filter, applied>>

\* toggleTask(s.tasks[k]): Service.Toggle (-> Update) changes the object
\* in place whether or not the statement succeeds; refresh() unless it
\* failed.  Both readings of time.Now() fall in the same tick.
toggleTask(k, o) ==
    /\ Running
    /\ k \in 1..Len(tasks)
    /\ LET t == StoreStamp(ServiceToggle(tasks[k], clock), clock)
       IN  /\ db' = IF o[1] THEN StoreUpdate(db, t) ELSE db
           /\ tasks' \in refresh(db', filter, [tasks EXCEPT ![k] = t], o[1] /\ o[2])
           /\ last' = Op("toggleTask", ~o[1], t.ID, IF o[1] THEN Hits(db, t.ID) ELSE 0)
    /\ faults' = Count(o)
    /\ UNCHANGED <<pc, i, tx, clock, filter, applied, issued>>

\* showTaskForm(s.tasks[k]), Save: an empty title is refused; else
\* Service.Edit (-> Update), and refresh() unless Edit failed.
editTask(k, title, description, priority, o) ==
    /\ Running
    /\ k \in 1..Len(tasks)
    /\ IF title = ""
          THEN /\ o = <<TRUE, TRUE>>
               /\ last' = Op("editTask", TRUE, tasks[k].ID, 0)
               /\ UNCHANGED <<db, tasks, faults>>
          ELSE LET t == StoreStamp(ServiceEdit(tasks[k], title, description,
                                               priority, clock), clock)
               IN  /\ db' = IF o[1] THEN StoreUpdate(db, t) ELSE db
                   /\ tasks' \in refresh(db', filter, [tasks EXCEPT ![k] = t],
                                         o[1] /\ o[2])
                   /\ faults' = Count(o)
                   /\ last' = Op("editTask", ~o[1], t.ID,
                                  IF o[1] THEN Hits(db, t.ID) ELSE 0)
    /\ UNCHANGED <<pc, i, tx, clock, filter, applied, issued>>

\* confirmDelete(s.tasks[k]), confirmed: Service.Delete(t.ID), and
\* refresh() unless it failed.
confirmDelete(k, o) ==
    /\ Running
    /\ k \in 1..Len(tasks)
    /\ db' = IF o[1] THEN Delete(db, tasks[k].ID) ELSE db
    /\ tasks' \in refresh(db', filter, tasks, o[1] /\ o[2])
    /\ faults' = Count(o)
    /\ last' = Op("confirmDelete", ~o[1], tasks[k].ID,
                 IF o[1] THEN Hits(db, tasks[k].ID) ELSE 0)
    /\ UNCHANGED <<pc, i, tx, clock, filter, applied, issued>>

\* The All / Active / Done buttons: s.filter = f; s.refresh().
setFilter(f, o) ==
    /\ Running
    /\ o[1]
    /\ filter' = f
    /\ tasks' \in refresh(db, f, tasks, o[2])
    /\ faults' = Count(o)
    /\ last' = Op("setFilter", ~o[2], 0, 0)
    /\ UNCHANGED <<db, pc, i, tx, clock, applied, issued>>

\* Service.Close at shutdown: the process and its task objects are gone.
Close ==
    /\ Running
    /\ pc' = "down"
    /\ tasks' = <<>>
    /\ filter' = "all"
    /\ last' = Op("Close", FALSE, 0, 0)
    /\ UNCHANGED <<db, i, tx, clock, applied, issued, faults>>

\* Time passes (it is read only by a running service).
Tick ==
    /\ Running
    /\ clock < MaxClock
    /\ clock' = clock + 1
    /\ last' = Op("Tick", FALSE, 0, 0)
    /\ UNCHANGED <<db, pc, i, tx, tasks, filter, applied, issued, faults>>

AddTask ==
    \E title \in Titles, description \in Descriptions, priority \in Picked,
       o \in Outcomes : addTask(title, description, priority, o)

ToggleTask == \E k \in 1..MaxID, o \in Outcomes : toggleTask(k, o)

EditTask ==
    \E k \in 1..MaxID, title \in Titles, description \in Descriptions,
       priority \in Picked, o \in Outcomes :
         editTask(k, title, description, priority, o)

ConfirmDelete == \E k \in 1..MaxID, o \in Outcomes : confirmDelete(k, o)

SetFilter == \E f \in {"all", "active", "done"}, o \in Outcomes : setFilter(f, o)

Next ==
    \/ New
    \/ MigrateBegin
    \/ MigrateExec
    \/ MigrateBump
    \/ MigrateCommit
    \/ Crash
    \/ OldNew
    \/ AddTask
    \/ ToggleTask
    \/ EditTask
    \/ ConfirmDelete
    \/ SetFilter
    \/ Close
    \/ Tick

Spec == Init /\ [][Next]_vars

\* ================================================================ claims
Ids(d) == {r.id : r \in d.rows}

\* The order the listing is said to have: not done first, then the higher
\* priority, then the task created earlier (ids are issued in creation
\* order).
ClaimedBefore(a, b) ==
    \/ ~a.Done /\ b.Done
    \/ a.Done = b.Done /\ a.Priority > b.Priority
    \/ a.Done = b.Done /\ a.Priority = b.Priority /\ a.ID < b.ID

\* C1: every listing All() can return puts not-done tasks before done ones,
\* within each group the higher priority first, and within equal done and
\* priority the task created earlier first: one fully determined order,
\* also for tasks created within the same clock second.
C1_ListingIsTotalOrder ==
    pc = "ready" =>
        \A l \in List(db) : \A x, y \in 1..Len(l) :
            x < y => ClaimedBefore(l[x], l[y])

\* Service.Toggle followed by SQLiteStore.Update, when the statement
\* succeeds: the task object and the file after the call.
ToggleCall(d, t, now) ==
    LET u == Stamp(ServiceToggle(t, now), now)
    IN  [t |-> u, db |-> Update(d, u)]

\* The task is done, closed at the instant c, on the object and in the file.
DoneAt(s, c) ==
    /\ s.t.Done
    /\ s.t.ClosedAt = Some(c)
    /\ \A r \in s.db.rows :
           r.id = s.t.ID => r.done = 1 /\ r.closed_at = Some(Format(c))

\* The task is not done and has no closed timestamp, on the object and in
\* the file.
Undone(s) ==
    /\ ~s.t.Done
    /\ s.t.ClosedAt = nil
    /\ \A r \in s.db.rows : r.id = s.t.ID => r.done = 0 /\ r.closed_at = nil

\* Three Toggle calls in a row on any task object the window holds, at
\* the instants c1 <= c2 <= c3.
C2_ThreeToggles ==
    pc = "ready" =>
        \A k \in 1..Len(tasks) :
        \A c1 \in clock..MaxClock : \A c2 \in c1..MaxClock : \A c3 \in c2..MaxClock :
            LET t == tasks[k]
                s1 == ToggleCall(db, t, c1)
                s2 == ToggleCall(s1.db, s1.t, c2)
                s3 == ToggleCall(s2.db, s2.t, c3)
            IN  /\ s1.t.Done = ~t.Done
                /\ s2.t.Done = t.Done
                /\ IF t.Done
                      THEN Undone(s1) /\ DoneAt(s2, c2) /\ Undone(s3)
                      ELSE DoneAt(s1, c1) /\ Undone(s2) /\ DoneAt(s3, c3)

\* A step of toggleTask whose statement succeeded leaves the task's row
\* with done flipped and closed_at set from the clock, or cleared.
C2_ToggleStep ==
    \A k \in 1..MaxID, o \in Outcomes :
        (pc = "ready" /\ o[1] /\ toggleTask(k, o)) =>
            \A r \in db'.rows :
                r.id = tasks[k].ID =>
                    IF tasks[k].Done
                       THEN r.done = 0 /\ r.closed_at = nil
                       ELSE r.done = 1 /\ r.closed_at = Some(Format(clock))

\* C2: Toggle is its own inverse on done: two Toggle calls in a row restore
\* the done value; the transition to done sets closedAt, the transition
\* back clears it, and a further transition to done sets closedAt anew
\* from the clock at that moment.
C2_ToggleIsItsOwnInverse == [](C2_ThreeToggles) /\ [][C2_ToggleStep]_vars

\* A task created in second 0 was completed in second 1.
C2_Witness ==
    /\ pc = "ready"
    /\ last.op = "toggleTask" /\ ~last.err /\ last.n = 1
    /\ \E r \in db.rows :
           /\ r.id = last.id
           /\ r.done = 1
           /\ r.created_at = 0
           /\ r.closed_at = Some(1)

\* C3: in every persisted state the current version serves (after the
\* start-up migration, and after any adds, toggles, edits and deletes),
\* each stored task has closed_at present exactly if its done flag is set.
C3_ClosedAtIffDone ==
    pc = "ready" => \A r \in db.rows : (r.closed_at # nil) <=> (r.done = 1)

\* C4: Edit leaves the persisted done flag and closed_at of its task as
\* they were, whatever task object it is given, and leaves every other
\* row as it was.
C4_EditKeepsDoneAndClosedAt ==
    [][\A k \in 1..MaxID, title \in Titles, description \in Descriptions,
          priority \in Picked, o \in Outcomes :
          (pc = "ready" /\ editTask(k, title, description, priority, o)) =>
              \A r \in db.rows : \E q \in db'.rows :
                  /\ q.id = r.id
                  /\ q.done = r.done
                  /\ q.closed_at = r.closed_at
                  /\ r.id # tasks[k].ID => q = r]_vars

\* A listing without the task of that id.
RemoveID(l, id) == SelectSeq(l, LAMBDA t : t.ID # id)

ColumnsAt(v) == {migrations[j] : j \in 1..v}

\* C6: over any sequence of opens of one file every migration step is
\* applied exactly once and in index order: the steps committed so far are
\* 1..version, a store that is ready is at version len(migrations), and
\* the schema is the one those steps give.
C6_MigrationsOnceInOrder ==
    /\ applied = [j \in 1..Len(applied) |-> j]
    /\ Len(applied) <= Len(migrations)
    /\ Len(applied) = (IF db.version = nil THEN 0 ELSE Get(db.version))
    /\ pc = "ready" => db.version = Some(Len(migrations))
    /\ db.columns = ColumnsAt(Len(applied))

\* A file that tasks were completed in by the current version is open
\* again, and ready.
C6_Witness ==
    /\ pc = "ready"
    /\ last.op = "Ready"
    /\ applied = <<1>>
    /\ \E r \in db.rows : r.closed_at # nil

\* C7: a migration step and its version bump are atomic: when the step's
\* statement, the version update or the commit fails, New returns an error
\* and the transaction is gone; the file's schema is at every moment the
\* one of its persisted version; and an open starts from that version.
C7_MigrationStepAtomic ==
    /\ (last.op \in {"Begin", "Exec", "Bump", "Commit"} /\ last.err)
           => pc = "down" /\ tx = nil
    /\ db.columns = (IF db.version = nil THEN {} ELSE ColumnsAt(Get(db.version)))
    /\ pc \in {"loop", "stmt", "bump", "commit"} => db.version = Some(i)

\* The version update of step 1 failed after its statement had run.
C7_Witness ==
    /\ pc = "down"
    /\ last.op = "Bump" /\ last.err
    /\ db.version = Some(0)

\* C8: a task written with Create or Update comes back from the List that
\* follows with every field as it was written, timestamps to their full
\* precision.
C8_RoundTripExact ==
    [][/\ \A title \in Titles, description \in Descriptions, priority \in Picked :
             (/\ pc = "ready" /\ filter = "all" /\ title # ""
              /\ addTask(title, description, priority, <<TRUE, TRUE>>))
             => \E k \in 1..Len(tasks') :
                    tasks'[k] =
                        Create(db, NewTask(title, description, priority, clock)).t
       /\ \A k \in 1..MaxID :
             (pc = "ready" /\ filter = "all" /\ toggleTask(k, <<TRUE, TRUE>>))
             => \A j \in 1..Len(tasks') :
                    tasks'[j].ID = tasks[k].ID =>
                        tasks'[j] = Stamp(ServiceToggle(tasks[k], clock), clock)]_vars

\* C9: for a non-empty title and a priority of the form, Add followed by
\* All lists exactly one task with the id Add returned; it has the given
\* title, description and priority, is not done, has no closedAt, and its
\* createdAt equals its updatedAt.
C9_AddThenAll ==
    [][\A title \in Titles, description \in Descriptions, priority \in Picked :
          (/\ title # "" /\ filter # "done"
           /\ addTask(title, description, priority, <<TRUE, TRUE>>))
          => /\ last'.id \notin Ids(db)
             /\ Cardinality({k \in 1..Len(tasks') : tasks'[k].ID = last'.id}) = 1
             /\ \A k \in 1..Len(tasks') :
                    tasks'[k].ID = last'.id =>
                        /\ tasks'[k].Title = title
                        /\ tasks'[k].Description = description
                        /\ tasks'[k].Priority = priority
                        /\ ~tasks'[k].Done
                        /\ tasks'[k].ClosedAt = nil
                        /\ tasks'[k].CreatedAt = tasks'[k].UpdatedAt]_vars

\* The second task was added, in the second half of a second, and listed.
C9_Witness ==
    /\ last.op = "addTask" /\ ~last.err /\ last.id = 2
    /\ clock = 1
    /\ Len(tasks) = 2
    /\ \E k \in 1..Len(tasks) : tasks[k].ID = 2

\* The ids assigned so far are all different, and the stored tasks carry
\* ids that Create assigned, each its own.
IssuedOnce ==
    /\ \A x, y \in 1..Len(issued) : x # y => issued[x] # issued[y]
    /\ Ids(db) \subseteq {issued[x] : x \in 1..Len(issued)}
    /\ Cardinality(Ids(db)) = Cardinality(db.rows)

\* A step in which Create assigned no id brings no id into the store, and
\* a step in which it did brings in that id alone.
OnlyCreateAssigns ==
    Ids(db') \subseteq
        Ids(db) \cup {issued'[x] : x \in (Len(issued) + 1)..Len(issued')}

\* C10: every id Create assigns differs from every id it assigned before,
\* deleted tasks included, and no operation other than Create changes the
\* id of a task.
C10_IdsNeverReused == [](IssuedOnce) /\ [][OnlyCreateAssigns]_vars

\* A task was added after the first task had been deleted.
C10_Witness ==
    /\ last.op = "addTask" /\ ~last.err
    /\ Len(issued) = 2
    /\ issued[1] \notin Ids(db)
    /\ issued[2] \in Ids(db)

\* No stored task has an empty title.
NoEmptyTitle == \A r \in db.rows : r.title # ""

\* A Save of the form with an empty title, for a new task or for the task
\* k of the list, is refused: the step reports an error, no storage call
\* runs (none can fail, no id is assigned), and the store and the listed
\* task objects are as they were.
EmptyTitleRefused ==
    \A k \in 1..MaxID, description \in Descriptions, priority \in Picked,
       o \in Outcomes :
        (\/ addTask("", description, priority, o)
         \/ editTask(k, "", description, priority, o))
        => /\ o = <<TRUE, TRUE>>
           /\ last'.err /\ last'.n = 0
           /\ db' = db
           /\ tasks' = tasks
           /\ issued' = issued
           /\ faults' = faults

\* C11: no task with an empty title is ever persisted: an Add or Edit
\* request with an empty title is rejected with an error before any
\* repository call, and the store is unchanged.
C11_NoEmptyTitlePersisted == [](NoEmptyTitle) /\ [][EmptyTitleRefused]_vars

\* An Edit request with an empty title was refused while the store, with
\* no storage error so far, held that task under its title.
C11_Witness ==
    /\ pc = "ready"
    /\ last.op = "editTask" /\ last.err
    /\ faults = 0
    /\ \E r \in db.rows : r.id = last.id /\ r.title = "a"

\* A step in which the service call of a handler fails with a storage
\* error: Add, Toggle, Edit (with a title the form accepts) or Delete.
FailedCall ==
    \E o \in Outcomes :
        /\ ~o[1]
        /\ \/ \E title \in Titles \ {""}, description \in Descriptions,
                 priority \in Picked : addTask(title, description, priority, o)
           \/ \E k \in 1..MaxID : toggleTask(k, o)
           \/ \E k \in 1..MaxID, title \in Titles \ {""},
                 description \in Descriptions, priority \in Picked :
                   editTask(k, title, description, priority, o)
           \/ \E k \in 1..MaxID : confirmDelete(k, o)

\* C12: when a Toggle, Edit, Add or Delete call fails with a storage error,
\* the window's in-memory task list, the fields of its task objects
\* included, is after the failed call what it was before it.
C12_FailedCallKeepsList ==
    [][(pc = "ready" /\ FailedCall) => tasks' = tasks]_vars
====
